---- MODULE Spec2Model ----
(***************************************************************************)
(* Model of HammerGesturesPlugin and HammerGestureConfig                   *)
(* (packages/platform-browser/src/dom/events/hammer_gestures.ts).          *)
(*                                                                         *)
(* Strings are sequences of character codes (ASCII), so that toLowerCase   *)
(* and the case-sensitive indexOf comparison are computed, not assumed.    *)
(***************************************************************************)
EXTENDS Integers, Sequences, FiniteSets, TLC

VARIABLES
    hammer,       \* (window as any).Hammer is present
    loader,       \* this.loader is configured (HAMMER_LOADER provided, non-null)
    events,       \* this._config.events : sequence of custom event names
    calls,        \* one record per addEventListener call made by the host
    listeners,    \* listener tables of all engine instances: {[mc, eventName, callback]}
    nextId,       \* allocator of object identities (engine instances, callbacks)
    warnings,     \* console.warn sink: sequence of [kind, name, call]
    lastSupports, \* last supports() call: [name, hammer, loader, result]
    nSupports,    \* number of supports() calls made so far
    nEmits,       \* number of events the engine has emitted so far
    nHandleCalls, \* number of deregistration-handle invocations so far
    probe,        \* last name-recognition query: [name, recognized]
    options,      \* recognizer settings `new Hammer(element, this.options)` yields
    overrides,    \* this._config.overrides : recognizer name -> option bag
    lastBuilt     \* the engine instance the last buildHammer returned

vars == <<hammer, loader, events, calls, listeners, nextId, warnings,
          lastSupports, nSupports, nEmits, nHandleCalls, probe,
          options, overrides, lastBuilt>>

----------------------------------------------------------------------------
(* Bounds *)

MaxCalls == 2
MaxHandleCalls == 2
MaxSupports == 2
MaxEmits == 1
MaxProbeLen == 5

----------------------------------------------------------------------------
(* Strings *)

\* toLowerChar that leaves every character as it is.
toLowerChar_identity(c) == c

\* String.prototype.toLowerCase on one ASCII character code.
toLowerChar(c) == IF c \in 65..90 THEN c + 32 ELSE c

\* eventName.toLowerCase()
toLowerCase(s) == [i \in 1..Len(s) |-> toLowerChar(s[i])]

EVENT_NAMES ==
    { <<112, 97, 110>>,                                           \* pan
      <<112, 97, 110, 115, 116, 97, 114, 116>>,                   \* panstart
      <<112, 97, 110, 109, 111, 118, 101>>,                       \* panmove
      <<112, 97, 110, 101, 110, 100>>,                            \* panend
      <<112, 97, 110, 99, 97, 110, 99, 101, 108>>,                \* pancancel
      <<112, 97, 110, 108, 101, 102, 116>>,                       \* panleft
      <<112, 97, 110, 114, 105, 103, 104, 116>>,                  \* panright
      <<112, 97, 110, 117, 112>>,                                 \* panup
      <<112, 97, 110, 100, 111, 119, 110>>,                       \* pandown
      <<112, 105, 110, 99, 104>>,                                 \* pinch
      <<112, 105, 110, 99, 104, 115, 116, 97, 114, 116>>,         \* pinchstart
      <<112, 105, 110, 99, 104, 109, 111, 118, 101>>,             \* pinchmove
      <<112, 105, 110, 99, 104, 101, 110, 100>>,                  \* pinchend
      <<112, 105, 110, 99, 104, 99, 97, 110, 99, 101, 108>>,      \* pinchcancel
      <<112, 105, 110, 99, 104, 105, 110>>,                       \* pinchin
      <<112, 105, 110, 99, 104, 111, 117, 116>>,                  \* pinchout
      <<112, 114, 101, 115, 115>>,                                \* press
      <<112, 114, 101, 115, 115, 117, 112>>,                      \* pressup
      <<114, 111, 116, 97, 116, 101>>,                            \* rotate
      <<114, 111, 116, 97, 116, 101, 115, 116, 97, 114, 116>>,    \* rotatestart
      <<114, 111, 116, 97, 116, 101, 109, 111, 118, 101>>,        \* rotatemove
      <<114, 111, 116, 97, 116, 101, 101, 110, 100>>,             \* rotateend
      <<114, 111, 116, 97, 116, 101, 99, 97, 110, 99, 101, 108>>, \* rotatecancel
      <<115, 119, 105, 112, 101>>,                                \* swipe
      <<115, 119, 105, 112, 101, 108, 101, 102, 116>>,            \* swipeleft
      <<115, 119, 105, 112, 101, 114, 105, 103, 104, 116>>,       \* swiperight
      <<115, 119, 105, 112, 101, 117, 112>>,                      \* swipeup
      <<115, 119, 105, 112, 101, 100, 111, 119, 110>>,            \* swipedown
      <<116, 97, 112>> }                                          \* tap

\* Names used as inputs of the model.
Swipeleft == <<115, 119, 105, 112, 101, 108, 101, 102, 116>>     \* "swipeleft"
SwipeLeft == <<83, 119, 105, 112, 101, 76, 101, 102, 116>>       \* "SwipeLeft"
Pinch     == <<112, 105, 110, 99, 104>>                          \* "pinch"
MyTap     == <<109, 121, 84, 97, 112>>                           \* "myTap"
Mytap     == <<109, 121, 116, 97, 112>>                          \* "mytap"
Click     == <<99, 108, 105, 99, 107>>                           \* "click"
NoName    == <<>>

\* Values of HammerGestureConfig.events the model starts from.
EventsConfigs == { <<>>, <<MyTap>>, <<Click, MyTap>> }

\* Event names the host passes to supports().
SupportsNames == {Swipeleft, SwipeLeft, Pinch, MyTap, Mytap, Click}

\* Event names the host passes to addEventListener().
ListenerNames == {Swipeleft, SwipeLeft}

\* Names under which the engine emits events.
EmitNames == {Swipeleft, SwipeLeft}

\* Elements the host binds gestures on.  addEventListener only hands the
\* element on to buildHammer, so one element stands for all of them; calls
\* for the same (element, name) pair are the ones that could interfere.
Elements == {1}
Payloads == {1, 2}

RECURSIVE CaseVariants(_)
\* All spellings of a lowercase name that differ from it in letter case only.
CaseVariants(s) ==
    IF s = <<>> THEN { <<>> }
    ELSE { <<c>> \o r : c \in {Head(s), Head(s) - 32}, r \in CaseVariants(Tail(s)) }

\* Names put to the recognition query: every spelling of the short fixed
\* names, of the custom name and of an unrelated name.
ProbeNames ==
    UNION { CaseVariants(n) : n \in {m \in EVENT_NAMES \cup {Mytap, Click} : Len(m) <= MaxProbeLen} }

----------------------------------------------------------------------------
(* HammerGesturesPlugin.supports *)

\* isCustomEvent that compares the names with letter case folded.
isCustomEvent_caseInsensitive(eventName) ==
    \E i \in 1..Len(events) : toLowerCase(events[i]) = toLowerCase(eventName)

\* this._config.events.indexOf(eventName) > -1
isCustomEvent(eventName) == \E i \in 1..Len(events) : events[i] = eventName

\* negation of the condition of the first `if` of supports()
isRecognized(eventName) ==
    toLowerCase(eventName) \in EVENT_NAMES \/ isCustomEvent(eventName)

\* cannotBind that forgets the loader.
cannotBind_ignoresLoader == ~hammer

\* the condition of the second `if` of supports()
cannotBind == ~hammer /\ ~loader

\* return value of supports(eventName)
supportsResult(eventName) ==
    IF ~isRecognized(eventName) THEN FALSE
    ELSE IF cannotBind THEN FALSE
    ELSE TRUE

\* supportsWarnings that warns before the name was found to be recognized.
supportsWarnings_unrecognized(eventName) ==
    IF ~hammer /\ ~loader
    THEN << [kind |-> "noLoader", name |-> eventName, call |-> 0] >>
    ELSE << >>

\* warnings emitted by one supports(eventName) call
supportsWarnings(eventName) ==
    IF isRecognized(eventName) /\ cannotBind
    THEN << [kind |-> "noLoader", name |-> eventName, call |-> 0] >>
    ELSE << >>

Supports(eventName) ==
    /\ nSupports < MaxSupports
    /\ nSupports' = nSupports + 1
    /\ warnings' = warnings \o supportsWarnings(eventName)
    /\ lastSupports' = [name |-> eventName, hammer |-> hammer, loader |-> loader,
                        result |-> supportsResult(eventName)]
    /\ UNCHANGED <<hammer, loader, events, calls,
                   listeners, nextId, nEmits, nHandleCalls, probe,
                   options, overrides, lastBuilt>>

----------------------------------------------------------------------------
(* The gesture engine (HammerInstance) *)

NoReg == [mc |-> 0, eventName |-> NoName, callback |-> 0]

\* mc.on(eventName, callback): the engine adds the callback to its table
engineOn(ls, reg) == ls \cup {reg}

\* mc.off(eventName, callback): the engine drops the callback from its table
engineOff(ls, reg) == ls \ {reg}

\* `new Hammer(element, options)` throws when the global is absent; when it
\* is present the constructor belongs to the engine and may throw or not.
CtorOutcomes == IF hammer THEN {TRUE, FALSE} ELSE {FALSE}

----------------------------------------------------------------------------
(* HammerGestureConfig.buildHammer *)

\* The recognizers of an engine instance that the model follows.
Recognizers == {"pinch", "rotate", "swipe"}

\* An option bag with no entry.
EmptyBag == [k \in {} |-> TRUE]

\* Option bags: any subset of the options enable and threshold.
Bags ==
    { e @@ t : e \in {EmptyBag} \cup { [k \in {"enable"} |-> v] : v \in BOOLEAN },
               t \in {EmptyBag} \cup { [k \in {"threshold"} |-> v] : v \in {0, 1} } }

\* recognizer.set(bag): the entries of the bag replace the recognizer's
\* options of the same name, the other options stay.
set(recognizer, bag) ==
    [k \in DOMAIN recognizer |-> IF k \in DOMAIN bag THEN bag[k] ELSE recognizer[k]]

\* The recognizer settings of the engine's preset: pinch and rotate are off.
PresetOptions ==
    [r \in Recognizers |-> [enable |-> r = "swipe", threshold |-> 0]]

\* The settings a base `options` object can give the recognizers.
BaseOptions ==
    [Recognizers -> { [enable |-> e, threshold |-> 0] : e \in BOOLEAN }]

\* The overrides mappings: recognizer names mapped to option bags.
OverridesConfigs ==
    UNION { [D -> Bags] : D \in SUBSET Recognizers }

NoInstance == [element |-> 0, recognizers |-> << >>]

\* buildHammer that applies the overrides before it enables pinch and rotate.
buildHammer_overridesFirst(element) ==
    LET mc  == options
        mc1 == [r \in Recognizers |->
                  IF r \in DOMAIN overrides THEN set(mc[r], overrides[r]) ELSE mc[r]]
        mc2 == [mc1 EXCEPT !["pinch"] = set(@, [enable |-> TRUE])]
        mc3 == [mc2 EXCEPT !["rotate"] = set(@, [enable |-> TRUE])]
    IN  [element |-> element, recognizers |-> mc3]

\* buildHammer(element): new Hammer(element, this.options), then
\* mc.get('pinch').set({enable: true}), mc.get('rotate').set({enable: true}),
\* then mc.get(eventName).set(this.overrides[eventName]) for every key.
buildHammer(element) ==
    LET mc  == options
        mc1 == [mc EXCEPT !["pinch"] = set(@, [enable |-> TRUE])]
        mc2 == [mc1 EXCEPT !["rotate"] = set(@, [enable |-> TRUE])]
        mc3 == [r \in Recognizers |->
                  IF r \in DOMAIN overrides THEN set(mc2[r], overrides[r]) ELSE mc2[r]]
    IN  [element |-> element, recognizers |-> mc3]

\* The host (or the plugin) asks the configuration for an engine instance.
BuildHammer(element) ==
    /\ lastBuilt' = buildHammer(element)
    /\ UNCHANGED <<hammer, loader, events, calls, listeners, nextId, warnings,
                   lastSupports, nSupports, nEmits, nHandleCalls, probe,
                   options, overrides>>

----------------------------------------------------------------------------
(* HammerGesturesPlugin.addEventListener *)

Range(f) == { f[i] : i \in DOMAIN f }

\* State of one addEventListener call at its entry.
NewCall(element, name) ==
    [ element            |-> element,
      name               |-> name,                \* the name the host gave
      eventName          |-> toLowerCase(name),   \* eventName = eventName.toLowerCase()
      path               |-> "direct",
      promise            |-> "none",     \* none | pending | resolved | rejected
      loaderStarts       |-> 0,          \* times this.loader() was called
      presentAtCall      |-> hammer,     \* Hammer was present when the host called
      cancelRegistration |-> FALSE,
      deregister         |-> "none",     \* none | cancel | noop | remove
      returned           |-> FALSE,      \* a deregistration handle was returned
      ctorThrew          |-> FALSE,
      propagated         |-> FALSE,      \* an error left addEventListener
      built              |-> {},         \* engine instances built for the call
      ons                |-> << >>,      \* arguments of every mc.on of the call
      steps              |-> << >>,      \* buildHammer / on steps and their zone
      offs               |-> << >>,      \* arguments of every mc.off of the call
      removal            |-> NoReg,      \* (mc, eventName, callback) of the closure
      handled            |-> << >>,      \* deliveries of events to handler
      escaped            |-> 0,          \* handler exceptions that reached the engine
      invoked            |-> FALSE,      \* the handle was invoked at least once
      invokedPending     |-> FALSE,      \* handle invoked before the loader settled
      presentAtSettle    |-> FALSE ]     \* Hammer was present when .then() ran

\* The registration the body of zone.runOutsideAngular makes:
\* mc = buildHammer(element); callback = function ...; both fresh objects.
newReg(eventName) == [mc |-> nextId, eventName |-> eventName, callback |-> nextId + 1]

\* The zone the host's code runs in: the host calls addEventListener, and
\* the promise callbacks of a call run, inside the Angular zone.
hostZone == "angular"

\* zone.runOutsideAngular(fn): the zone fn runs in when called from `zone`.
runOutsideAngular(zone) == "outside"

\* step that runs in the zone addEventListener was called in.
step_inHostZone(what) == [step |-> what, zone |-> hostZone]

\* A step of the bound path and the zone it ran in.
step(what) == [step |-> what, zone |-> runOutsideAngular(hostZone)]

\* this._config.buildHammer(element) throws inside zone.runOutsideAngular.
buildThrows(c) == [c EXCEPT !.ctorThrew = TRUE, !.steps = Append(@, step("buildHammer"))]

\* boundPath whose removal closure wraps the handler anew instead of keeping
\* the callback it gave to on.
boundPath_rewrap(c, eventName) ==
    [c EXCEPT !.built = @ \cup {nextId},
              !.ons = Append(@, newReg(eventName)),
              !.steps = @ \o <<step("buildHammer"), step("on")>>,
              !.removal = [newReg(eventName) EXCEPT !.callback = nextId + 2],
              !.deregister = "remove",
              !.returned = TRUE]

\* Body of zone.runOutsideAngular(() => {...}) when buildHammer returns:
\* mc.on(eventName, callback); return () => mc.off(eventName, callback)
boundPath(c, eventName) ==
    [c EXCEPT !.built = @ \cup {nextId},
              !.ons = Append(@, newReg(eventName)),
              !.steps = @ \o <<step("buildHammer"), step("on")>>,
              !.removal = newReg(eventName),
              !.deregister = "remove",
              !.returned = TRUE]

\* The deferred branch: cancelRegistration = false, deregister = cancel,
\* this.loader() started, `() => { deregister(); }` returned.
deferredPath(c) ==
    [c EXCEPT !.path = "deferred",
              !.promise = "pending",
              !.loaderStarts = @ + 1,
              !.cancelRegistration = FALSE,
              !.deregister = "cancel",
              !.returned = TRUE]

\* takesDeferredPath that defers whenever a loader is configured.
takesDeferredPath_ignoresPresence == loader

\* condition of `if (!(window as any).Hammer && this.loader)`
takesDeferredPath == ~hammer /\ loader

AddEventListener(element, name) ==
    /\ Len(calls) < MaxCalls
    /\ LET c == NewCall(element, name) IN
       IF takesDeferredPath
       THEN /\ calls' = Append(calls, deferredPath(c))
            /\ UNCHANGED <<listeners, nextId, lastBuilt>>
       ELSE \E ok \in CtorOutcomes :
              IF ok
              THEN /\ calls' = Append(calls, boundPath(c, c.eventName))
                   /\ listeners' = engineOn(listeners, newReg(c.eventName))
                   /\ nextId' = nextId + 2
                   /\ lastBuilt' = buildHammer(c.element)
              ELSE /\ calls' = Append(calls, [buildThrows(c) EXCEPT !.propagated = TRUE])
                   /\ UNCHANGED <<listeners, nextId, lastBuilt>>
    /\ UNCHANGED <<hammer, loader, events, warnings,
                   lastSupports, nSupports, nEmits, nHandleCalls, probe,
                   options, overrides>>

\* condition of `if (!(window as any).Hammer)` in the .then() callback
stillAbsent == ~hammer

\* shouldBind that does not look at the cancellation flag.
shouldBind_always(c) == TRUE

\* condition of `if (!cancelRegistration)` in the .then() callback
shouldBind(c) == ~c.cancelRegistration

\* loaderFailedWarning whose message leaves the event name out.
loaderFailedWarning_noName(i) ==
    [kind |-> "loaderFailed", name |-> NoName, call |-> i]

\* console.warn of the .catch() callback
loaderFailedWarning(i) ==
    [kind |-> "loaderFailed", name |-> calls[i].eventName, call |-> i]

\* giveUp that leaves the cancelling action in place.
giveUp_keepsAction(c) == c

\* `deregister = () => {};` of the .then() and .catch() callbacks
giveUp(c) == [c EXCEPT !.deregister = "noop"]

\* console.warn of the .then() callback when Hammer is still absent
notPresentWarning(i) ==
    [kind |-> "notPresent", name |-> NoName, call |-> i]

\* pending that lets a settled promise run its callbacks again.
pending_resettles(c) == c.path = "deferred"

\* The promise this.loader() returned has not settled yet; its .then() and
\* .catch() callbacks run when it settles, once.
pending(c) == c.promise = "pending"

\* The loader's promise resolves: the .then() callback runs.  Its recursive
\* addEventListener(element, eventName, handler) evaluates the condition of
\* the deferred branch again and lowercases the name again; an exception it
\* raises rejects the derived promise, so the .catch() callback runs after it.
LoaderResolve(i) ==
    /\ i \in 1..Len(calls)
    /\ pending(calls[i])
    /\ LET c == [calls[i] EXCEPT !.promise = "resolved", !.presentAtSettle = hammer] IN
       IF stillAbsent
       THEN /\ calls' = [calls EXCEPT ![i] = giveUp(c)]
            /\ warnings' = Append(warnings, notPresentWarning(i))
            /\ UNCHANGED <<listeners, nextId, lastBuilt>>
       ELSE IF shouldBind(c)
       THEN IF takesDeferredPath
            THEN /\ calls' = [calls EXCEPT ![i] = deferredPath(c)]
                 /\ UNCHANGED <<listeners, nextId, warnings, lastBuilt>>
            ELSE \E ok \in CtorOutcomes :
              IF ok
              THEN /\ calls' = [calls EXCEPT ![i] = boundPath(c, toLowerCase(c.eventName))]
                   /\ listeners' = engineOn(listeners, newReg(toLowerCase(c.eventName)))
                   /\ nextId' = nextId + 2
                   /\ lastBuilt' = buildHammer(c.element)
                   /\ UNCHANGED warnings
              ELSE /\ calls' = [calls EXCEPT ![i] = giveUp(buildThrows(c))]
                   /\ warnings' = Append(warnings, loaderFailedWarning(i))
                   /\ UNCHANGED <<listeners, nextId, lastBuilt>>
       ELSE /\ calls' = [calls EXCEPT ![i] = c]
            /\ UNCHANGED <<listeners, nextId, warnings, lastBuilt>>
    /\ UNCHANGED <<hammer, loader, events, lastSupports,
                   nSupports, nEmits, nHandleCalls, probe,
                   options, overrides>>

\* The loader's promise rejects: .then() is skipped, the .catch() callback runs.
LoaderReject(i) ==
    /\ i \in 1..Len(calls)
    /\ pending(calls[i])
    /\ calls' = [calls EXCEPT ![i] = giveUp([@ EXCEPT !.promise = "rejected"])]
    /\ warnings' = Append(warnings, loaderFailedWarning(i))
    /\ UNCHANGED <<hammer, loader, events, listeners, nextId,
                   lastSupports, nSupports, nEmits, nHandleCalls, probe,
                   options, overrides, lastBuilt>>

\* runDeregister with a cancelling action that forgets to raise the flag.
runDeregister_noCancel(c) ==
    CASE c.deregister = "remove" -> [c EXCEPT !.offs = Append(@, c.removal)]
      [] OTHER -> c

\* What the current `deregister` does to the call when it is executed.
runDeregister(c) ==
    CASE c.deregister = "cancel" -> [c EXCEPT !.cancelRegistration = TRUE]
      [] c.deregister = "remove" -> [c EXCEPT !.offs = Append(@, c.removal)]
      [] OTHER -> c

\* InvokeHandle with the cancellation flag kept on the plugin instead of in
\* the closure of the call: cancelling one call cancels every pending call.
InvokeHandle_sharedFlag(i) ==
    /\ i \in 1..Len(calls)
    /\ calls[i].returned
    /\ nHandleCalls < MaxHandleCalls
    /\ nHandleCalls' = nHandleCalls + 1
    /\ LET c == runDeregister(calls[i]) IN
       /\ calls' = [k \in 1..Len(calls) |->
                      IF k = i
                      THEN [c EXCEPT !.invoked = TRUE,
                                     !.invokedPending = @ \/ calls[i].promise = "pending"]
                      ELSE IF calls[i].deregister = "cancel" /\ calls[k].deregister = "cancel"
                      THEN [calls[k] EXCEPT !.cancelRegistration = TRUE]
                      ELSE calls[k]]
       /\ listeners' = IF Len(c.offs) > Len(calls[i].offs)
                       THEN engineOff(listeners, c.offs[Len(c.offs)])
                       ELSE listeners
    /\ UNCHANGED <<hammer, loader, events, nextId,
                   warnings, lastSupports, nSupports, nEmits, probe,
                   options, overrides, lastBuilt>>

\* The host invokes the function addEventListener returned.
InvokeHandle(i) ==
    /\ i \in 1..Len(calls)
    /\ calls[i].returned
    /\ nHandleCalls < MaxHandleCalls
    /\ nHandleCalls' = nHandleCalls + 1
    /\ LET c == runDeregister(calls[i]) IN
       /\ calls' = [calls EXCEPT ![i] =
                      [c EXCEPT !.invoked = TRUE,
                                !.invokedPending = @ \/ calls[i].promise = "pending"]]
       /\ listeners' = IF Len(c.offs) > Len(calls[i].offs)
                       THEN engineOff(listeners, c.offs[Len(c.offs)])
                       ELSE listeners
    /\ UNCHANGED <<hammer, loader, events, nextId,
                   warnings, lastSupports, nSupports, nEmits, probe,
                   options, overrides, lastBuilt>>

\* Engine instances built so far.
Instances == UNION { calls[i].built : i \in 1..Len(calls) }

\* The listeners the engine instance mc calls for an event named `name`.
dispatched(mc, name) == { reg \in listeners : reg.mc = mc /\ reg.eventName = name }

\* zone.runGuarded(fn): whether an exception raised by fn leaves the call.
\* The guarded boundary of the host reports it to its own error handler.
runGuarded(throws) == FALSE

\* handler(eventObj) of the host: it raises an exception on some events.
handlerThrows(eventObj) == eventObj = 2

\* One invocation handler(eventObj), in the zone it ran in, and whether the
\* handler raised an exception.
delivery(eventObj, zone) ==
    [eventObj |-> eventObj, zone |-> zone, threw |-> handlerThrows(eventObj)]

\* callback that delivers the event to the handler twice.
callback_twice(c, eventObj) ==
    [c EXCEPT !.handled = Append(Append(@, delivery(eventObj, "guarded")),
                                 delivery(eventObj, "guarded"))]

\* callback that calls the handler directly, outside zone.runGuarded.
callback_unguarded(c, eventObj) ==
    [c EXCEPT !.handled = Append(@, delivery(eventObj, runOutsideAngular(hostZone))),
              !.escaped = @ + (IF handlerThrows(eventObj) THEN 1 ELSE 0)]

\* callback(eventObj): zone.runGuarded(function() { handler(eventObj); })
callback(c, eventObj) ==
    [c EXCEPT !.handled = Append(@, delivery(eventObj, "guarded")),
              !.escaped = @ + (IF runGuarded(handlerThrows(eventObj)) THEN 1 ELSE 0)]

\* The engine instance mc emits an event: every callback in its table for
\* that name is called with the event object.
EmitEvent(mc, name, eventObj) ==
    /\ nEmits < MaxEmits
    /\ mc \in Instances
    /\ nEmits' = nEmits + 1
    /\ calls' = [i \in 1..Len(calls) |->
                   IF Range(calls[i].ons) \cap dispatched(mc, name) # {}
                   THEN callback(calls[i], eventObj)
                   ELSE calls[i]]
    /\ UNCHANGED <<hammer, loader, events, listeners, nextId,
                   warnings, lastSupports, nSupports, nHandleCalls, probe,
                   options, overrides, lastBuilt>>

\* The engine's script installs window.Hammer (the plugin only reads the
\* flag; nothing takes the engine away again).
InstallHammer ==
    /\ ~hammer
    /\ hammer' = TRUE
    /\ UNCHANGED <<loader, events, calls, listeners, nextId,
                   warnings, lastSupports, nSupports, nEmits, nHandleCalls, probe,
                   options, overrides, lastBuilt>>

----------------------------------------------------------------------------
(* Specifications *)

NoSupports == [name |-> NoName, hammer |-> FALSE, loader |-> FALSE, result |-> FALSE]

NoProbe == [name |-> NoName, recognized |-> FALSE]

\* State after the plugin is constructed: nothing registered, nothing logged.
Fresh ==
    /\ calls = << >>
    /\ listeners = {}
    /\ nextId = 1
    /\ warnings = << >>
    /\ lastSupports = NoSupports
    /\ nSupports = 0
    /\ nEmits = 0
    /\ nHandleCalls = 0
    /\ probe = NoProbe

\* The configuration of an application that sets no options and no overrides.
DefaultConfig ==
    /\ options = PresetOptions
    /\ overrides = EmptyBag
    /\ lastBuilt = NoInstance

\* The registration protocol: the host adds listeners and invokes the handles,
\* loaders settle, the engine appears and emits events.
Init ==
    /\ hammer \in BOOLEAN
    /\ loader \in BOOLEAN
    /\ events = << >>
    /\ Fresh
    /\ DefaultConfig

Next ==
    \/ \E element \in Elements, name \in ListenerNames : AddEventListener(element, name)
    \/ \E i \in 1..MaxCalls : LoaderResolve(i)
    \/ \E i \in 1..MaxCalls : LoaderReject(i)
    \/ \E i \in 1..MaxCalls : InvokeHandle(i)
    \/ \E mc \in 1..(2 * MaxCalls), name \in EmitNames, eventObj \in Payloads :
          EmitEvent(mc, name, eventObj)
    \/ InstallHammer

Spec == Init /\ [][Next]_vars

\* The host dispatcher asking supports() under every configuration.
InitSupports ==
    /\ hammer \in BOOLEAN
    /\ loader \in BOOLEAN
    /\ events \in EventsConfigs
    /\ Fresh
    /\ DefaultConfig

NextSupports ==
    \/ \E name \in SupportsNames : Supports(name)
    \/ InstallHammer

SpecSupports == InitSupports /\ [][NextSupports]_vars

\* Names the host registers when the configuration declares the custom
\* event "myTap".
CaseNames == {MyTap, SwipeLeft, Swipeleft}

\* Registration with a custom event whose name has an uppercase letter.
InitCase ==
    /\ hammer \in BOOLEAN
    /\ loader \in BOOLEAN
    /\ events = <<MyTap>>
    /\ Fresh
    /\ DefaultConfig

NextCase ==
    \/ \E element \in Elements, name \in CaseNames : AddEventListener(element, name)
    \/ \E i \in 1..MaxCalls : LoaderResolve(i)
    \/ \E i \in 1..MaxCalls : InvokeHandle(i)
    \/ InstallHammer

SpecCase == InitCase /\ [][NextCase]_vars

\* Engine construction under every configuration.
InitBuild ==
    /\ hammer = TRUE
    /\ loader = FALSE
    /\ events = << >>
    /\ Fresh
    /\ options \in BaseOptions
    /\ overrides \in OverridesConfigs
    /\ lastBuilt = NoInstance

NextBuild == \E element \in Elements : BuildHammer(element)

SpecBuild == InitBuild /\ [][NextBuild]_vars

\* The recognition rule applied to one name.
Recognize(name) ==
    /\ probe' = [name |-> name, recognized |-> isRecognized(name)]
    /\ UNCHANGED <<hammer, loader, events, calls, listeners,
                   nextId, warnings, lastSupports, nSupports, nEmits, nHandleCalls,
                   options, overrides, lastBuilt>>

NextNames == \E name \in ProbeNames : Recognize(name)

SpecNames == InitSupports /\ [][NextNames]_vars

----------------------------------------------------------------------------
(* Properties of the registration protocol *)

Calls == 1..Len(calls)

\* The registrations of call i that are still in some engine's listener table.
stillRegistered(i) == Range(calls[i].ons) \cap listeners

\* The loader of call i has settled (or the call never had one).
settled(i) == calls[i].promise # "pending"

\* C1: a deferred call whose handle was invoked before the loader settled
\* never has the engine's on invoked for it, nor the engine's off, however
\* the loader settles afterwards.
C1_CancelBeforeSettleNeverBinds ==
    \A i \in Calls :
        (calls[i].path = "deferred" /\ calls[i].invokedPending)
            => /\ calls[i].ons = << >>
               /\ calls[i].offs = << >>
               /\ calls[i].built = {}

\* A deferred call cancelled while pending whose loader then resolved with
\* the engine present.
C1_Witness ==
    \E i \in Calls :
        /\ calls[i].path = "deferred"
        /\ calls[i].invokedPending
        /\ calls[i].promise = "resolved"
        /\ calls[i].presentAtSettle

\* C2: whatever the state of a call, invoking its handle repeatedly has the
\* engine's off invoked at most once for that call.
C2_OffAtMostOnce ==
    \A i \in Calls : Len(calls[i].offs) <= 1

\* C3: once the handle of a call has been invoked and its loader (if any)
\* has settled, no wrapped callback of the call is registered on any engine
\* instance, and no later step invokes the handler.
C3_NoListenerLeak ==
    /\ [](\A i \in Calls :
            (calls[i].invoked /\ settled(i)) => stillRegistered(i) = {})
    /\ [][\A i \in Calls :
            (calls[i].invoked /\ settled(i)) => calls'[i].handled = calls[i].handled]_vars

\* A call bound through the loader, then deregistered, after which the
\* engine emitted an event.
C3_Witness ==
    \E i \in Calls :
        /\ calls[i].path = "deferred"
        /\ calls[i].ons # << >>
        /\ calls[i].invoked
        /\ calls[i].handled = << >>
        /\ nEmits > 0

\* Call i took the deferred path, was not cancelled while the loader was
\* pending, and the loader resolved with the engine present and buildable.
boundViaLoader(i) ==
    /\ calls[i].path = "deferred"
    /\ calls[i].promise = "resolved"
    /\ calls[i].presentAtSettle
    /\ ~calls[i].invokedPending
    /\ ~calls[i].ctorThrew

untouched(i) == [calls'[i] EXCEPT !.invoked = calls[i].invoked] = calls[i]

\* C5: when the loader of a call rejects, a warning carrying the event name
\* (in the lowercased form the call works with) is logged, the engine's on is
\* never invoked and no instance built for the call, the handler is
\* never invoked, and from then on nothing, a later invocation of the handle
\* or the arrival of the engine included, changes the call.
C5_LoaderRejects ==
    /\ [](\A i \in Calls :
            calls[i].promise = "rejected"
                => /\ calls[i].ons = << >>
                   /\ calls[i].offs = << >>
                   /\ calls[i].built = {}
                   /\ calls[i].handled = << >>
                   /\ \E k \in 1..Len(warnings) :
                         warnings[k] = [kind |-> "loaderFailed",
                                        name |-> toLowerCase(calls[i].name),
                                        call |-> i])
    /\ [][\A i \in Calls : calls[i].promise = "rejected" => untouched(i)]_vars

\* A call whose loader rejected, whose handle was invoked only afterwards,
\* with the engine present by now.
C5_Witness ==
    \E i \in Calls :
        /\ calls[i].promise = "rejected"
        /\ calls[i].invoked
        /\ ~calls[i].invokedPending
        /\ hammer

\* C6: when the loader of a call resolves while the engine is still absent,
\* a warning is logged, no engine instance is built and on is never invoked
\* for the call, and the handle is a no-op from then on, also after the
\* engine has become available.
C6_ResolvedButAbsent ==
    /\ [](\A i \in Calls :
            (calls[i].promise = "resolved" /\ ~calls[i].presentAtSettle)
                => /\ calls[i].ons = << >>
                   /\ calls[i].offs = << >>
                   /\ calls[i].built = {}
                   /\ \E k \in 1..Len(warnings) :
                         warnings[k].kind = "notPresent" /\ warnings[k].call = i)
    /\ [][\A i \in Calls :
            (calls[i].promise = "resolved" /\ ~calls[i].presentAtSettle)
                => untouched(i)]_vars

\* A call whose loader resolved without the engine, whose handle was invoked
\* afterwards, with the engine present by now.
C6_Witness ==
    \E i \in Calls :
        /\ calls[i].promise = "resolved"
        /\ ~calls[i].presentAtSettle
        /\ calls[i].invoked
        /\ ~calls[i].invokedPending
        /\ hammer

----------------------------------------------------------------------------
(* Properties of supports() and of name recognition *)

\* The name occurs in the configured custom-event list, compared exactly.
occursExactly(name) == \E k \in 1..Len(events) : events[k] = name

\* The name is one of the fixed gesture names, letter case ignored.
fixedIgnoringCase(name) ==
    \E n \in EVENT_NAMES :
        /\ Len(n) = Len(name)
        /\ \A k \in 1..Len(n) : name[k] \in {n[k], n[k] - 32}

\* C7: supports(name) returns true exactly when the name is recognized
\* (fixed set or custom list) and the engine is present or a loader is
\* configured; with neither, supports("pinch") is false.
C7_SupportsIff ==
    lastSupports # NoSupports =>
        /\ lastSupports.result
              <=> /\ fixedIgnoringCase(lastSupports.name) \/ occursExactly(lastSupports.name)
                  /\ lastSupports.hammer \/ lastSupports.loader
        /\ (lastSupports.name = Pinch /\ ~lastSupports.hammer /\ ~lastSupports.loader)
              => ~lastSupports.result

\* supports("pinch") was asked with the engine absent and no loader.
C7_Witness ==
    /\ lastSupports.name = Pinch
    /\ ~lastSupports.hammer
    /\ ~lastSupports.loader
    /\ ~lastSupports.result

\* C8: one supports(name) call logs exactly one warning when the name is
\* recognized, the engine absent and no loader configured, and none
\* otherwise; it changes nothing else (no loader started, no instance built,
\* no listener bound); asked again for the same name in the same
\* environment it returns the same result.
C8_SupportsFrame ==
    [][nSupports' # nSupports =>
        /\ LET name == lastSupports'.name
               warns == /\ fixedIgnoringCase(name) \/ occursExactly(name)
                        /\ ~hammer
                        /\ ~loader
           IN  /\ warns  => /\ Len(warnings') = Len(warnings) + 1
                            /\ warnings'[Len(warnings')].name = name
                            /\ SubSeq(warnings', 1, Len(warnings)) = warnings
               /\ ~warns => warnings' = warnings
        /\ UNCHANGED <<hammer, loader, events, calls, listeners, nextId>>
        /\ ( /\ lastSupports'.name = lastSupports.name
             /\ lastSupports'.hammer = lastSupports.hammer
             /\ lastSupports'.loader = lastSupports.loader
             /\ lastSupports # NoSupports )
              => lastSupports'.result = lastSupports.result]_vars

\* Two supports() calls were made, of which exactly one warned.
C8_Witness ==
    /\ nSupports = 2
    /\ Len(warnings) = 1

\* C9: a name of the fixed gesture set is recognized in any letter case; any
\* other name is recognized exactly when it occurs in the custom-event list
\* by exact, case-sensitive comparison.
C9_NameRecognition ==
    probe # NoProbe =>
        /\ fixedIgnoringCase(probe.name) => probe.recognized
        /\ ~fixedIgnoringCase(probe.name) => (probe.recognized <=> occursExactly(probe.name))

\* The custom name "myTap" is configured and "mytap" was found unrecognized.
C9_Witness ==
    /\ occursExactly(MyTap)
    /\ probe.name = Mytap
    /\ ~probe.recognized

----------------------------------------------------------------------------
(* Properties of deregistration *)

\* C10: for a bound call (directly or through the loader) exactly one wrapped
\* callback exists, and every off the handle makes names the same engine
\* instance, the same event name and the very callback given to on.
C10_OffMatchesOn ==
    \A i \in Calls :
        calls[i].ons # << >>
            => /\ Len(calls[i].ons) = 1
               /\ \A k \in 1..Len(calls[i].offs) : calls[i].offs[k] = calls[i].ons[1]
               /\ \A j \in Calls :
                     j # i => \A r \in Range(calls[j].ons) :
                                 r.callback # calls[i].ons[1].callback

\* A call bound through the loader whose handle has called off.
C10_Witness ==
    \E i \in Calls :
        /\ calls[i].path = "deferred"
        /\ calls[i].ons # << >>
        /\ calls[i].offs # << >>

----------------------------------------------------------------------------
(* Properties of event delivery *)

\* The one registration of call i is in its engine's listener table.
bound(i) == calls[i].ons # << >> /\ calls[i].ons[1] \in listeners

\* C11: while a call is bound and not deregistered, an event the engine
\* emits under the bound name invokes the handler exactly once, with the
\* event object it was emitted with, inside the guarded zone; an exception
\* of the handler never reaches the engine's dispatch.
C11_GuardedDelivery ==
    [][nEmits' # nEmits =>
        \A i \in Calls :
            bound(i) =>
                \A eventObj \in Payloads :
                    EmitEvent(calls[i].ons[1].mc, calls[i].ons[1].eventName, eventObj)
                        => /\ Len(calls'[i].handled) = Len(calls[i].handled) + 1
                           /\ calls'[i].handled[Len(calls'[i].handled)].eventObj = eventObj
                           /\ calls'[i].handled[Len(calls'[i].handled)].zone = "guarded"
                           /\ calls'[i].escaped = 0]_vars

\* The handler of a bound call raised an exception on an event.
C11_Witness ==
    \E i \in Calls :
        /\ bound(i)
        /\ Len(calls[i].handled) = 1
        /\ calls[i].handled[1].threw

----------------------------------------------------------------------------
(* Properties of several calls *)

\* Step at which something about call j changes: its record or whether its
\* registration is in the engine's listener table.
changes(j) ==
    \/ calls'[j] # calls[j]
    \/ \E r \in Range(calls[j].ons) : (r \in listeners') # (r \in listeners)

\* C12: calls are independent, also calls for the same (element, name)
\* pair: no engine instance is shared between two calls, and a step that
\* changes one call (cancelling it, deregistering it, its loader failing or
\* resolving, a new call being made) changes no other call's state,
\* binding or deregistration action.
C12_CallsIndependent ==
    /\ [](\A i, j \in Calls : i # j => calls[i].built \cap calls[j].built = {})
    /\ [][\A i, j \in Calls : (i # j /\ changes(i)) => ~changes(j)]_vars
    /\ [][Len(calls') # Len(calls) => \A j \in Calls : ~changes(j)]_vars

\* Two calls for the same element and name, one bound through the loader and
\* deregistered, the other still bound.
C12_Witness ==
    \E i, j \in Calls :
        /\ i # j
        /\ calls[i].element = calls[j].element
        /\ calls[i].name = calls[j].name
        /\ calls[i].path = "deferred"
        /\ calls[i].ons # << >>
        /\ calls[i].offs # << >>
        /\ bound(j)

----------------------------------------------------------------------------
(* Properties of the loader and of engine construction *)

\* C13: the loader is called at most once per call; it is called, within
\* the call itself, exactly by the calls that find the engine absent and a
\* loader configured (the recursive call after the loader resolved does not
\* call it again), and never by a call made while the engine is present.
C13_LoaderAtMostOnce ==
    \A i \in Calls :
        /\ calls[i].loaderStarts <= 1
        /\ calls[i].path = "deferred" <=> calls[i].loaderStarts = 1
        /\ calls[i].path = "deferred" <=> (~calls[i].presentAtCall /\ loader)
        /\ calls[i].presentAtCall => calls[i].loaderStarts = 0

\* A call bound through the loader (the recursive call was made), and a call
\* made directly while the engine was present.
C13_Witness ==
    \E i, j \in Calls :
        /\ boundViaLoader(i)
        /\ calls[i].loaderStarts = 1
        /\ calls[j].presentAtCall
        /\ calls[j].ons # << >>

\* C14: in every reachable state at most one engine instance has been built
\* for a call, and the engine's on has been invoked at most once for it.
C14_OneInstanceOneOn ==
    \A i \in Calls :
        /\ Cardinality(calls[i].built) <= 1
        /\ Len(calls[i].ons) <= 1
        /\ Len(calls[i].ons) = Cardinality(calls[i].built)

\* A call bound through the loader whose handle was invoked twice afterwards:
\* still one instance and one on.
C14_Witness ==
    \E i \in Calls :
        /\ boundViaLoader(i)
        /\ Cardinality(calls[i].built) = 1
        /\ Len(calls[i].ons) = 1
        /\ Len(calls[i].offs) = 2

\* C15: a call made with the engine absent and no loader configured does not
\* throw, builds no instance, binds nothing and returns a handle.
C15_AbsentNoLoaderIsNoOp ==
    \A i \in Calls :
        (~calls[i].presentAtCall /\ calls[i].path = "direct")
            => /\ ~calls[i].propagated
               /\ calls[i].returned
               /\ calls[i].built = {}
               /\ calls[i].ons = << >>

\* C16: a failure of the engine constructor on the bound path, entered
\* directly or after the loader resolved, leaves the plugin as an error of
\* the call; it is not turned into a warning or a no-op handle.
C16_CtorFailurePropagates ==
    \A i \in Calls :
        calls[i].ctorThrew
            => /\ calls[i].propagated
               /\ calls[i].deregister # "noop"
               /\ \A k \in 1..Len(warnings) : warnings[k].call # i

\* C17: every warning logged for a non-fatal failure names the event the
\* failure is about.
C17_WarningsNameTheEvent ==
    \A k \in 1..Len(warnings) :
        /\ warnings[k].name # NoName
        /\ warnings[k].name = calls[warnings[k].call].eventName

----------------------------------------------------------------------------
(* Zones *)

\* C19: on the direct and on the deferred path the engine is constructed and
\* on is called outside the Angular zone; the handler is the only thing that
\* runs in the guarded zone, once per delivered event.
C19_BuildOutsideDeliverGuarded ==
    \A i \in Calls :
        /\ \A k \in 1..Len(calls[i].steps) : calls[i].steps[k].zone = "outside"
        /\ calls[i].ons # << >> =>
               { calls[i].steps[k].step : k \in 1..Len(calls[i].steps) } = {"buildHammer", "on"}
        /\ calls[i].ctorThrew =>
               { calls[i].steps[k].step : k \in 1..Len(calls[i].steps) } = {"buildHammer"}
        /\ \A k \in 1..Len(calls[i].handled) : calls[i].handled[k].zone = "guarded"

\* A directly bound call and a call bound through the loader, one of which
\* has had an event delivered to its handler.
C19_Witness ==
    \E i, j \in Calls :
        /\ calls[i].path = "direct"
        /\ Len(calls[i].steps) = 2
        /\ boundViaLoader(j)
        /\ Len(calls[j].steps) = 2
        /\ calls[j].handled # << >>

----------------------------------------------------------------------------
(* Properties of buildHammer *)

\* The overrides entry of recognizer r is in force in the built instance.
applied(r) ==
    \A k \in DOMAIN overrides[r] : lastBuilt.recognizers[r][k] = overrides[r][k]

\* C18 as stated: under every configuration the built instance has pinch and
\* rotate enabled and every overrides entry applied.
C18_PinchRotateAlwaysEnabled ==
    lastBuilt # NoInstance =>
        /\ lastBuilt.recognizers["pinch"].enable
        /\ lastBuilt.recognizers["rotate"].enable
        /\ \A r \in DOMAIN overrides : applied(r)

\* C18 amended: every overrides entry is applied; pinch and rotate are
\* enabled whatever the base options say, unless the overrides entry of that
\* recognizer sets enable itself; options without an override keep the value
\* the constructor gave them.
C18_ForcedThenOverridden ==
    lastBuilt # NoInstance =>
        /\ \A r \in DOMAIN overrides : applied(r)
        /\ \A r \in {"pinch", "rotate"} :
               (r \notin DOMAIN overrides \/ "enable" \notin DOMAIN overrides[r])
                   => lastBuilt.recognizers[r].enable
        /\ \A r \in Recognizers \ {"pinch", "rotate"} :
               (r \notin DOMAIN overrides \/ "enable" \notin DOMAIN overrides[r])
                   => lastBuilt.recognizers[r].enable = options[r].enable

\* An instance built from base options that disable pinch, with an override
\* that disables rotate and an override of another recognizer.
C18_Witness ==
    /\ lastBuilt # NoInstance
    /\ ~options["pinch"].enable
    /\ "pinch" \notin DOMAIN overrides
    /\ lastBuilt.recognizers["pinch"].enable
    /\ DOMAIN overrides = {"rotate", "swipe"}
    /\ overrides["rotate"] = [enable |-> FALSE]
    /\ ~lastBuilt.recognizers["rotate"].enable
    /\ overrides["swipe"] = [threshold |-> 1]
    /\ lastBuilt.recognizers["swipe"].threshold = 1

----------------------------------------------------------------------------
(* The name handed to the engine *)

upper(ch) == ch \in 65..90

hasUpper(name) == \E k \in 1..Len(name) : upper(name[k])

\* `given` is `name` with every uppercase letter replaced by its lowercase
\* letter and every other character kept.
lowercased(name, given) ==
    /\ Len(given) = Len(name)
    /\ \A k \in 1..Len(name) :
           given[k] = IF upper(name[k]) THEN name[k] + 32 ELSE name[k]

\* C20: the name given to the engine's on and off is the lowercased form of
\* the name addEventListener was called with, on both paths; so a name that
\* supports accepts is bound under that same name only if it has no
\* uppercase letter.
C20_BoundUnderLowercasedName ==
    \A i \in Calls :
        \A reg \in Range(calls[i].ons) \cup Range(calls[i].offs) :
            /\ lowercased(calls[i].name, reg.eventName)
            /\ supportsResult(calls[i].name) =>
                   (reg.eventName = calls[i].name <=> ~hasUpper(calls[i].name))

\* The custom event "myTap", which supports accepts, bound through the loader
\* under "mytap" and removed again, next to a directly bound "swipeleft".
C20_Witness ==
    \E i, j \in Calls :
        /\ calls[i].name = MyTap
        /\ supportsResult(MyTap)
        /\ ~supportsResult(Mytap)
        /\ boundViaLoader(i)
        /\ calls[i].ons[1].eventName = Mytap
        /\ calls[i].offs # << >>
        /\ calls[i].offs[1].eventName = Mytap
        /\ calls[j].path = "direct"
        /\ calls[j].name = Swipeleft
        /\ calls[j].ons # << >>
        /\ calls[j].ons[1].eventName = Swipeleft

====
